---- MODULE Spec2Model ----
(***************************************************************************)
(* Model of src/app.ts of megashop: an ES module with four `export const`  *)
(* declarations and no imports.  The state is the module's environment     *)
(* (one binding per export), the position of the module's evaluation, and  *)
(* what each importing consumer last read.  JavaScript values are tagged   *)
(* with their typeof so that shape and type statements can be refuted.     *)
(***************************************************************************)
EXTENDS Integers, Sequences, FiniteSets, TLC

VARIABLES env, pc, observed, assigns

vars == <<env, pc, observed, assigns>>

(* ---------------------------- bounds ---------------------------------- *)

\* number of importing consumers that run interleaved
NumConsumers == 2

Consumers == 1..NumConsumers

\* number of field assignments explored in one run
MaxAssigns == 2

(* ------------------------ JavaScript values --------------------------- *)

Str(s) == [type |-> "string", val |-> s]

Bool(b) == [type |-> "boolean", val |-> b]

\* an object literal: val is the function from own property name to value
Obj(f) == [type |-> "object", val |-> f]

\* a property read of a missing key
Undefined == [type |-> "undefined", val |-> "undefined"]

\* a `const` binding between instantiation and its declaration's evaluation
Uninitialized == [type |-> "uninitialized", val |-> "TDZ"]

IsStr(v, s) == v.type = "string" /\ v.val = s

IsBool(v, b) == v.type = "boolean" /\ v.val = b

IsScalar(v) == v.type \in {"string", "boolean"}

IsObject(v) == v.type = "object"

Keys(v) == IF IsObject(v) THEN DOMAIN v.val ELSE {}

\* a record all of whose own properties are strings or booleans
IsFlatRecord(v) == IsObject(v) /\ \A k \in Keys(v) : IsScalar(v.val[k])

StartsWith(s, p) == Len(s) >= Len(p) /\ SubSeq(s, 1, Len(p)) = p

(* ------------------------ the four declarations ----------------------- *)

SEO_CONFIG_Nested ==
    Obj([ description |-> Str("MegaShop is a robust ecommerce platform built with next.js and modern technologies. It's designed for businesses who want a fast, modern, and scalable foundation for their online store."),
          fullName    |-> Str("MegaShop - Your Ultimate Shopping Destination"),
          name        |-> Obj([short |-> Str("MegaShop")]),
          slogan      |-> Str("Where shopping meets convenience.") ])

SEO_CONFIG_Slogan ==
    Obj([ description |-> Str("MegaShop is a robust ecommerce platform built with next.js and modern technologies. It's designed for businesses who want a fast, modern, and scalable foundation for their online store."),
          fullName    |-> Str("MegaShop - Your Ultimate Shopping Destination"),
          name        |-> Str("MegaShop"),
          slogan      |-> Str("Where shopping meets convenience") ])

SEO_CONFIG ==
    Obj([ description |-> Str("MegaShop is a robust ecommerce platform built with next.js and modern technologies. It's designed for businesses who want a fast, modern, and scalable foundation for their online store."),
          fullName    |-> Str("MegaShop - Your Ultimate Shopping Destination"),
          name        |-> Str("MegaShop"),
          slogan      |-> Str("Where shopping meets convenience.") ])

SYSTEM_CONFIG_Redirect ==
    Obj([ redirectAfterSignIn |-> Str("https://megashop.example/dashboard/uploads"),
          redirectAfterSignUp |-> Str("https://megashop.example/dashboard/uploads"),
          repoName            |-> Str("megashop"),
          repoOwner           |-> Str("durgeshkryadav"),
          repoStars           |-> Bool(TRUE) ])

SYSTEM_CONFIG_SignUp ==
    Obj([ redirectAfterSignIn |-> Str("/dashboard/uploads"),
          redirectAfterSignUp |-> Str("/auth/sign-in"),
          repoName            |-> Str("megashop"),
          repoOwner           |-> Str("durgeshkryadav"),
          repoStars           |-> Bool(TRUE) ])

SYSTEM_CONFIG_Stars ==
    Obj([ redirectAfterSignIn |-> Str("/dashboard/uploads"),
          redirectAfterSignUp |-> Str("/dashboard/uploads"),
          repoName            |-> Str("megashop"),
          repoOwner           |-> Str("durgeshkryadav"),
          repoStars           |-> Str("true") ])

SYSTEM_CONFIG ==
    Obj([ redirectAfterSignIn |-> Str("/dashboard/uploads"),
          redirectAfterSignUp |-> Str("/dashboard/uploads"),
          repoName            |-> Str("megashop"),
          repoOwner           |-> Str("durgeshkryadav"),
          repoStars           |-> Bool(TRUE) ])

ADMIN_CONFIG_Extra == Obj([ displayEmails |-> Bool(FALSE), displayNames |-> Bool(FALSE) ])

ADMIN_CONFIG == Obj([ displayEmails |-> Bool(FALSE) ])

DB_DEV_LOGGER_String == Str("false")

DB_DEV_LOGGER == Bool(FALSE)

ExportNames == {"SEO_CONFIG", "SYSTEM_CONFIG", "ADMIN_CONFIG", "DB_DEV_LOGGER"}

\* the value each declaration's initializer evaluates to
Initializer(e) ==
    CASE e = "SEO_CONFIG"    -> SEO_CONFIG
      [] e = "SYSTEM_CONFIG" -> SYSTEM_CONFIG
      [] e = "ADMIN_CONFIG"  -> ADMIN_CONFIG
      [] e = "DB_DEV_LOGGER" -> DB_DEV_LOGGER

\* the statement that follows declaration e in source order
NextStatement(e) ==
    CASE e = "SEO_CONFIG"    -> "SYSTEM_CONFIG"
      [] e = "SYSTEM_CONFIG" -> "ADMIN_CONFIG"
      [] e = "ADMIN_CONFIG"  -> "DB_DEV_LOGGER"
      [] e = "DB_DEV_LOGGER" -> "evaluated"

(* --------------------------- module evaluation ------------------------ *)

\* after instantiation: every const binding exists and is uninitialized
Init ==
    /\ env = [e \in ExportNames |-> Uninitialized]
    /\ pc = "SEO_CONFIG"
    /\ observed = [c \in Consumers |-> [target |-> <<"none", "none">>, kind |-> "none", value |-> Undefined]]
    /\ assigns = 0

\* one `export const e = <initializer>;` statement
Declare(e) ==
    /\ pc = e
    /\ env' = [env EXCEPT ![e] = Initializer(e)]
    /\ pc' = NextStatement(e)
    /\ UNCHANGED <<observed, assigns>>

EvalSEO_CONFIG == Declare("SEO_CONFIG")

EvalSYSTEM_CONFIG == Declare("SYSTEM_CONFIG")

EvalADMIN_CONFIG == Declare("ADMIN_CONFIG")

EvalDB_DEV_LOGGER == Declare("DB_DEV_LOGGER")

(* ------------------------------ consumers ----------------------------- *)

\* The module has no import, so it is in no import cycle: an importer's
\* body runs only once the whole module body has been evaluated.
CanRunEarly == TRUE

CanRun == pc = "evaluated"

\* what a consumer can name: a property of an exported record, or the
\* exported binding itself (field "")
Targets ==
    { <<"SEO_CONFIG", f>> : f \in {"description", "fullName", "name", "slogan"} } \cup
    { <<"SYSTEM_CONFIG", f>> : f \in {"redirectAfterSignIn", "redirectAfterSignUp", "repoName", "repoOwner", "repoStars"} } \cup
    { <<"ADMIN_CONFIG", "displayEmails">>, <<"DB_DEV_LOGGER", "">> }

\* evaluation of `e` or `e.f` in environment en
Get(en, t) ==
    LET v == en[t[1]] IN
    IF v.type = "uninitialized" THEN [kind |-> "ReferenceError", value |-> Undefined]
    ELSE IF t[2] = "" THEN [kind |-> "value", value |-> v]
    ELSE IF t[2] \in Keys(v) THEN [kind |-> "value", value |-> v.val[t[2]]]
    ELSE [kind |-> "value", value |-> Undefined]

\* consumer c evaluates the expression t and keeps the outcome
Read(c, t) ==
    /\ CanRun
    /\ observed' = [observed EXCEPT ![c] =
                       [target |-> t, kind |-> Get(env, t).kind, value |-> Get(env, t).value]]
    /\ UNCHANGED <<env, pc, assigns>>

Next ==
    \/ EvalSEO_CONFIG
    \/ EvalSYSTEM_CONFIG
    \/ EvalADMIN_CONFIG
    \/ EvalDB_DEV_LOGGER
    \/ \E c \in Consumers, t \in Targets : Read(c, t)

Spec == Init /\ [][Next]_vars

(* -------------------- field assignment by a consumer ------------------ *)

\* strings a consumer may store into a string-typed property
AssignStrings == {"changed"}

\* The object literals are neither `as const` nor frozen, so their
\* properties are writable and typed string / boolean: `e.f = v` is accepted
\* for every v of the property's declared type.
AssignValues == {Str(s) : s \in AssignStrings} \cup {Bool(b) : b \in BOOLEAN}

DeclaredType(t) == Initializer(t[1]).val[t[2]].type

Assign(c, t, v) ==
    /\ CanRun
    /\ assigns < MaxAssigns
    /\ assigns' = assigns + 1
    /\ t[2] # ""
    /\ IsObject(env[t[1]])
    /\ t[2] \in Keys(env[t[1]])
    /\ v.type = DeclaredType(t)
    /\ env' = [env EXCEPT ![t[1]] = Obj([env[t[1]].val EXCEPT ![t[2]] = v])]
    /\ UNCHANGED <<pc, observed>>

NextAssign ==
    \/ EvalSEO_CONFIG
    \/ EvalSYSTEM_CONFIG
    \/ EvalADMIN_CONFIG
    \/ EvalDB_DEV_LOGGER
    \/ \E c \in Consumers, t \in Targets : Read(c, t)
    \/ \E c \in Consumers, t \in Targets, v \in AssignValues : Assign(c, t, v)

SpecAssign == Init /\ [][NextAssign]_vars

(* ============================ properties ============================== *)

Evaluated == pc = "evaluated"

\* consumer c's last read was of t
HasRead(c, t) == observed[c].target = t

\* consumer c's last read was of t and produced the string s / the boolean b
ReadStr(c, t, s) == HasRead(c, t) => observed[c].kind = "value" /\ IsStr(observed[c].value, s)

ReadBool(c, t, b) == HasRead(c, t) => observed[c].kind = "value" /\ IsBool(observed[c].value, b)

\* C1: once the module is initialised, whatever reads and permitted field
\* assignments consumers perform, SEO_CONFIG, SYSTEM_CONFIG, ADMIN_CONFIG and
\* DB_DEV_LOGGER still equal the values of their initializers.
C1_ConstantsNeverMutate ==
    Evaluated => \A e \in ExportNames : env[e] = Initializer(e)

\* C2 as stated: the module exports exactly the four names and each of the
\* four exported values is a record of scalar fields.
C2_EachExportIsRecord ==
    Evaluated =>
        /\ DOMAIN env = {"SEO_CONFIG", "SYSTEM_CONFIG", "ADMIN_CONFIG", "DB_DEV_LOGGER"}
        /\ \A e \in DOMAIN env : IsFlatRecord(env[e])

\* C2 amended: the module exports exactly the four names; SEO_CONFIG,
\* SYSTEM_CONFIG and ADMIN_CONFIG are records with a fixed key set and scalar
\* fields, and DB_DEV_LOGGER is a bare boolean, not a record.
C2_ExportShapes ==
    Evaluated =>
        /\ DOMAIN env = {"SEO_CONFIG", "SYSTEM_CONFIG", "ADMIN_CONFIG", "DB_DEV_LOGGER"}
        /\ IsFlatRecord(env["SEO_CONFIG"])
        /\ Keys(env["SEO_CONFIG"]) = {"description", "fullName", "name", "slogan"}
        /\ IsFlatRecord(env["SYSTEM_CONFIG"])
        /\ Keys(env["SYSTEM_CONFIG"]) =
               {"redirectAfterSignIn", "redirectAfterSignUp", "repoName", "repoOwner", "repoStars"}
        /\ IsFlatRecord(env["ADMIN_CONFIG"])
        /\ Keys(env["ADMIN_CONFIG"]) = {"displayEmails"}
        /\ env["DB_DEV_LOGGER"].type = "boolean"
        /\ ~IsObject(env["DB_DEV_LOGGER"])

C2_Witness ==
    /\ Evaluated
    /\ HasRead(1, <<"DB_DEV_LOGGER", "">>) /\ observed[1].value.type = "boolean"
    /\ HasRead(2, <<"ADMIN_CONFIG", "displayEmails">>)

\* C3: whenever a consumer reads SYSTEM_CONFIG.redirectAfterSignIn or
\* SYSTEM_CONFIG.redirectAfterSignUp, it gets the string "/dashboard/uploads".
C3_RedirectTargetsFixed ==
    /\ Evaluated =>
          /\ IsStr(env["SYSTEM_CONFIG"].val["redirectAfterSignIn"], "/dashboard/uploads")
          /\ IsStr(env["SYSTEM_CONFIG"].val["redirectAfterSignUp"], "/dashboard/uploads")
    /\ \A c \in Consumers :
          /\ ReadStr(c, <<"SYSTEM_CONFIG", "redirectAfterSignIn">>, "/dashboard/uploads")
          /\ ReadStr(c, <<"SYSTEM_CONFIG", "redirectAfterSignUp">>, "/dashboard/uploads")

C3_Witness ==
    /\ HasRead(1, <<"SYSTEM_CONFIG", "redirectAfterSignIn">>)
    /\ HasRead(2, <<"SYSTEM_CONFIG", "redirectAfterSignUp">>)

\* C4: whenever a consumer reads ADMIN_CONFIG.displayEmails or DB_DEV_LOGGER
\* it gets the boolean false (a boolean, not a falsy value of another type).
C4_TogglesOff ==
    /\ Evaluated =>
          /\ IsBool(env["ADMIN_CONFIG"].val["displayEmails"], FALSE)
          /\ IsBool(env["DB_DEV_LOGGER"], FALSE)
    /\ \A c \in Consumers :
          /\ ReadBool(c, <<"ADMIN_CONFIG", "displayEmails">>, FALSE)
          /\ ReadBool(c, <<"DB_DEV_LOGGER", "">>, FALSE)

C4_Witness ==
    /\ HasRead(1, <<"ADMIN_CONFIG", "displayEmails">>)
    /\ HasRead(2, <<"DB_DEV_LOGGER", "">>)

\* C5: SEO_CONFIG.name, slogan, fullName and description have exactly the
\* literal values declared in the source, in the environment and in every
\* consumer's read.
C5_BrandingStrings ==
    LET name        == "MegaShop"
        slogan      == "Where shopping meets convenience."
        fullName    == "MegaShop - Your Ultimate Shopping Destination"
        description == "MegaShop is a robust ecommerce platform built with next.js and modern technologies. It's designed for businesses who want a fast, modern, and scalable foundation for their online store."
    IN  /\ Evaluated =>
              /\ IsStr(env["SEO_CONFIG"].val["name"], name)
              /\ IsStr(env["SEO_CONFIG"].val["slogan"], slogan)
              /\ IsStr(env["SEO_CONFIG"].val["fullName"], fullName)
              /\ IsStr(env["SEO_CONFIG"].val["description"], description)
        /\ \A c \in Consumers :
              /\ ReadStr(c, <<"SEO_CONFIG", "name">>, name)
              /\ ReadStr(c, <<"SEO_CONFIG", "slogan">>, slogan)
              /\ ReadStr(c, <<"SEO_CONFIG", "fullName">>, fullName)
              /\ ReadStr(c, <<"SEO_CONFIG", "description">>, description)

C5_Witness ==
    /\ HasRead(1, <<"SEO_CONFIG", "slogan">>)
    /\ HasRead(2, <<"SEO_CONFIG", "description">>)

\* the four entities of the data model and the export that carries each
Entities ==
    [ siteMetadata        |-> "SEO_CONFIG",
      redirectPathPair    |-> "SYSTEM_CONFIG",
      adminVisibilityFlag |-> "ADMIN_CONFIG",
      loggingFlag         |-> "DB_DEV_LOGGER" ]

\* C6 as stated: the exported entities are exactly site metadata, the
\* redirect-path pair, the admin visibility flag and the logging flag, and
\* every one of them is a flat key-value record whose values are all strings
\* or booleans.
C6_EveryEntityFlatRecord ==
    Evaluated =>
        /\ {Entities[n] : n \in DOMAIN Entities} = DOMAIN env
        /\ \A n \in DOMAIN Entities :
              /\ env[Entities[n]].type = "object"
              /\ \A k \in DOMAIN env[Entities[n]].val :
                    env[Entities[n]].val[k].type \in {"string", "boolean"}

\* C6 amended: the exported entities are exactly those four; site metadata,
\* the redirect-path entity and the admin visibility flag are flat key-value
\* records whose values are all strings or booleans, the logging flag is a
\* bare boolean; no consumer ever reads a nested record, number, null,
\* undefined or function out of them.
C6_EntitiesFlatOrScalar ==
    /\ Evaluated =>
          /\ {Entities[n] : n \in DOMAIN Entities} = DOMAIN env
          /\ \A n \in DOMAIN Entities \ {"loggingFlag"} :
                /\ env[Entities[n]].type = "object"
                /\ \A k \in DOMAIN env[Entities[n]].val :
                      env[Entities[n]].val[k].type \in {"string", "boolean"}
          /\ env[Entities["loggingFlag"]].type = "boolean"
          /\ {"redirectAfterSignIn", "redirectAfterSignUp"} \subseteq Keys(env[Entities["redirectPathPair"]])
    /\ \A c \in Consumers :
          observed[c].kind = "value" => observed[c].value.type \in {"string", "boolean"}

C6_Witness ==
    /\ Evaluated
    /\ HasRead(1, <<"SEO_CONFIG", "name">>) /\ observed[1].value.type = "string"
    /\ HasRead(2, <<"DB_DEV_LOGGER", "">>) /\ observed[2].value.type = "boolean"

\* C7: a read never fails and has no side effect: every step in which a
\* consumer's observation changes yields a value (not an error), namely the
\* value the environment holds for the expression read, and leaves the
\* module's environment, its evaluation state and every other consumer's
\* observation unchanged.
C7_ReadTotalAndPure ==
    [][ \A c \in Consumers :
          observed'[c] # observed[c] =>
              /\ observed'[c].kind = "value"
              /\ observed'[c].value = Get(env, observed'[c].target).value
              /\ IsScalar(observed'[c].value)
              /\ env' = env
              /\ pc' = pc
              /\ \A d \in Consumers \ {c} : observed'[d] = observed[d] ]_vars

C7_Witness ==
    /\ observed[1].kind = "value" /\ HasRead(1, <<"SYSTEM_CONFIG", "repoName">>)
    /\ observed[2].kind = "value" /\ HasRead(2, <<"SEO_CONFIG", "fullName">>)
    /\ \A e \in ExportNames : env[e] = Initializer(e)

\* C8: whatever consumers do with the exported values and however they
\* interleave, two consumers that read the same field observe the same
\* value: no consumer's action changes what another consumer reads.
C8_ConsumersObserveSameValue ==
    \A c, d \in Consumers :
        (observed[c].kind = "value" /\ observed[d].kind = "value"
            /\ observed[c].target = observed[d].target)
        => observed[c].value = observed[d].value

\* C9: SYSTEM_CONFIG has exactly the five fields redirectAfterSignIn,
\* redirectAfterSignUp, repoName, repoOwner, repoStars; repoName is
\* "megashop", repoOwner is "durgeshkryadav" and repoStars is the boolean true.
C9_RepositoryMetadata ==
    /\ Evaluated =>
          /\ Keys(env["SYSTEM_CONFIG"]) =
                 {"redirectAfterSignIn", "redirectAfterSignUp", "repoName", "repoOwner", "repoStars"}
          /\ Cardinality(Keys(env["SYSTEM_CONFIG"])) = 5
          /\ IsStr(env["SYSTEM_CONFIG"].val["repoName"], "megashop")
          /\ IsStr(env["SYSTEM_CONFIG"].val["repoOwner"], "durgeshkryadav")
          /\ IsBool(env["SYSTEM_CONFIG"].val["repoStars"], TRUE)
    /\ \A c \in Consumers :
          /\ ReadStr(c, <<"SYSTEM_CONFIG", "repoName">>, "megashop")
          /\ ReadStr(c, <<"SYSTEM_CONFIG", "repoOwner">>, "durgeshkryadav")
          /\ ReadBool(c, <<"SYSTEM_CONFIG", "repoStars">>, TRUE)

C9_Witness ==
    /\ HasRead(1, <<"SYSTEM_CONFIG", "repoStars">>)
    /\ HasRead(2, <<"SYSTEM_CONFIG", "repoOwner">>)

\* C10: sign-in and sign-up redirect to the same destination, and that
\* destination is a string that begins with "/".
C10_SameInternalDestination ==
    Evaluated =>
        LET signIn == env["SYSTEM_CONFIG"].val["redirectAfterSignIn"]
            signUp == env["SYSTEM_CONFIG"].val["redirectAfterSignUp"]
        IN  /\ signIn.type = "string"
            /\ signUp.type = "string"
            /\ signIn.val = signUp.val
            /\ StartsWith(signIn.val, "/")

C10_Witness ==
    /\ HasRead(1, <<"SYSTEM_CONFIG", "redirectAfterSignUp">>)
    /\ HasRead(2, <<"SYSTEM_CONFIG", "redirectAfterSignIn">>)
    /\ observed[1].value = observed[2].value

====
